---- MODULE Spec2Model ----
(***************************************************************************)
(* Model of src/duckdb_load/mod.rs of duckdb-gridwalk: the file-type       *)
(* classifier determine_file_type and the loader launch_process_file.      *)
(*                                                                         *)
(* A byte buffer (&[u8]) is a sequence of integers 0..255.  A &str is      *)
(* modelled by its UTF-8 bytes; std::str::from_utf8 is a checked cast that *)
(* succeeds exactly on well-formed UTF-8.  A Rust panic (slice index out   *)
(* of range) is the outcome Panic, distinct from Ok(..) and Err(..).       *)
(***************************************************************************)
EXTENDS Integers, Sequences, FiniteSets, TLC

VARIABLES
    file_content,   \* the bytes of the file / the buffer handed to the classifier
    pc,             \* position of the running call
    ret,            \* outcome of determine_file_type
    failed,         \* the collaborator step that failed in this run, or "none"
    launch_ret,     \* outcome of launch_process_file
    sql,            \* statements the DuckDB connection has executed
    stdout,         \* lines written by println!
    stderr          \* lines written by eprintln!

vars == <<file_content, pc, ret, failed, launch_ret, sql, stdout, stderr>>

----------------------------------------------------------------------------
(* Outcomes *)

FileType == {"Geopackage", "Shapefile", "Geojson", "Excel", "Csv", "Parquet"}

Ok(v)  == [kind |-> "Ok", val |-> v]
Err(m) == [kind |-> "Err", val |-> m]
Panic  == [kind |-> "Panic", val |-> "range end index out of range for slice"]
None   == [kind |-> "None", val |-> ""]

InvalidGeojson == Err("Not a valid GeoJSON file")
UnknownFormat  == Err("Unknown file type")

----------------------------------------------------------------------------
(* Byte strings of the source *)

HeaderLen == 16
MagicLen  == 4

ZipMagic     == <<80, 75, 3, 4>>                      \* b"PK\x03\x04"
SqliteMagic  == <<83, 81, 76, 105, 116, 101, 32, 102, 111, 114, 109, 97, 116,
                  32, 51, 0>>                         \* b"SQLite format 3\0"
ShpMagic     == <<0, 0, 39, 10>>                      \* b"\x00\x00\x27\x0A"
ParquetMagic == <<80, 65, 82, 49>>                    \* b"PAR1"
Brace        == <<123>>                               \* b"{"
TypeKey      == <<34, 116, 121, 112, 101, 34, 58>>    \* "\"type\":"
FeatureCollectionStr ==
    <<34, 70, 101, 97, 116, 117, 114, 101, 67, 111, 108, 108, 101, 99, 116,
      105, 111, 110, 34>>                             \* "\"FeatureCollection\""
FeatureStr   == <<34, 70, 101, 97, 116, 117, 114, 101, 34>>  \* "\"Feature\""

Comma == 44
LF    == 10
CR    == 13

----------------------------------------------------------------------------
(* Slices and string primitives, as the Rust standard library computes them *)

Min(a, b) == IF a <= b THEN a ELSE b

\* &s[lo..hi] panics unless lo <= hi <= s.len()
SliceOk(s, lo, hi) == lo <= hi /\ hi <= Len(s)
Slice(s, lo, hi)   == SubSeq(s, lo + 1, hi)

\* slice::starts_with / str::contains: never panic
StartsWith(s, p) == Len(p) <= Len(s) /\ SubSeq(s, 1, Len(p)) = p
Contains(s, p) ==
    \E i \in 0..(Len(s) - Len(p)) : SubSeq(s, i + 1, i + Len(p)) = p

\* std::str::from_utf8 accepts exactly the well-formed UTF-8 byte sequences
Cont(s, i)        == i <= Len(s) /\ s[i] >= 128 /\ s[i] <= 191
InRange(s, i, a, b) == i <= Len(s) /\ s[i] >= a /\ s[i] <= b
Utf8Width(s, i) ==
    LET b == s[i] IN
    IF b <= 127 THEN 1
    ELSE IF b >= 194 /\ b <= 223 /\ Cont(s, i + 1) THEN 2
    ELSE IF b = 224 /\ InRange(s, i + 1, 160, 191) /\ Cont(s, i + 2) THEN 3
    ELSE IF ((b >= 225 /\ b <= 236) \/ b = 238 \/ b = 239)
            /\ Cont(s, i + 1) /\ Cont(s, i + 2) THEN 3
    ELSE IF b = 237 /\ InRange(s, i + 1, 128, 159) /\ Cont(s, i + 2) THEN 3
    ELSE IF b = 240 /\ InRange(s, i + 1, 144, 191)
            /\ Cont(s, i + 2) /\ Cont(s, i + 3) THEN 4
    ELSE IF b >= 241 /\ b <= 243
            /\ Cont(s, i + 1) /\ Cont(s, i + 2) /\ Cont(s, i + 3) THEN 4
    ELSE IF b = 244 /\ InRange(s, i + 1, 128, 143)
            /\ Cont(s, i + 2) /\ Cont(s, i + 3) THEN 4
    ELSE 0

RECURSIVE ValidUtf8From(_, _)
ValidUtf8From(s, i) ==
    IF i > Len(s) THEN TRUE
    ELSE LET w == Utf8Width(s, i) IN
         IF w = 0 THEN FALSE ELSE ValidUtf8From(s, i + w)

ValidUtf8(s) == ValidUtf8From(s, 1)

\* std::str::from_utf8(bytes).unwrap_or("")
from_utf8_or_empty(bytes) == IF ValidUtf8(bytes) THEN bytes ELSE <<>>

\* str::is_ascii
is_ascii(s) == \A i \in 1..Len(s) : s[i] <= 127

\* str::lines: split_inclusive('\n'), then strip the "\n" and a "\r" before it
FirstLF(s) ==
    IF \E i \in 1..Len(s) : s[i] = LF
    THEN CHOOSE i \in 1..Len(s) : s[i] = LF /\ \A j \in 1..(i - 1) : s[j] # LF
    ELSE 0

RECURSIVE SplitInclusive(_)
SplitInclusive(s) ==
    IF s = <<>> THEN <<>>
    ELSE LET i == FirstLF(s) IN
         IF i = 0 THEN <<s>>
         ELSE <<SubSeq(s, 1, i)>> \o SplitInclusive(SubSeq(s, i + 1, Len(s)))

StripLine(l) ==
    IF Len(l) > 0 /\ l[Len(l)] = LF
    THEN LET l1 == SubSeq(l, 1, Len(l) - 1) IN
         IF Len(l1) > 0 /\ l1[Len(l1)] = CR
         THEN SubSeq(l1, 1, Len(l1) - 1)
         ELSE l1
    ELSE l

lines(s) == LET p == SplitInclusive(s) IN [k \in 1..Len(p) |-> StripLine(p[k])]

\* line.split(',').count(): one more than the number of commas
split_count(l) == 1 + Cardinality({i \in 1..Len(l) : l[i] = Comma})

----------------------------------------------------------------------------
(* determine_file_type *)

\* the branch taken when the header starts with b"{"
json_branch(fc) ==
    LET json_start == from_utf8_or_empty(fc) IN
    IF Contains(json_start, TypeKey)
       /\ (Contains(json_start, FeatureCollectionStr)
           \/ Contains(json_start, FeatureStr))
    THEN Ok("Geojson")
    ELSE InvalidGeojson

\* the final else branch
csv_branch(fc) ==
    LET file_text == from_utf8_or_empty(fc)
        ls        == lines(file_text)
    IN  IF Len(ls) >= 2
           /\ split_count(ls[1]) > 1
           /\ split_count(ls[2]) = split_count(ls[1])
           /\ is_ascii(file_text)
        THEN Ok("Csv")
        ELSE UnknownFormat

\* variant: the 16-byte SQLite comparison is made before the ZIP comparison
determine_file_type_sqlite_first(fc) ==
    LET header == Slice(fc, 0, Min(HeaderLen, Len(fc))) IN
    IF ~SliceOk(header, 0, HeaderLen) THEN Panic
    ELSE IF Slice(header, 0, HeaderLen) = SqliteMagic THEN Ok("Geopackage")
    ELSE IF Slice(header, 0, MagicLen) = ZipMagic THEN Ok("Excel")
    ELSE IF Slice(header, 0, MagicLen) = ShpMagic THEN Ok("Shapefile")
    ELSE IF Slice(header, 0, MagicLen) = ParquetMagic THEN Ok("Parquet")
    ELSE IF StartsWith(header, Brace) THEN json_branch(fc)
    ELSE csv_branch(fc)

\* variant: the SQLite comparison slices header[0..15], one byte short
determine_file_type_sqlite15(fc) ==
    LET header == Slice(fc, 0, Min(HeaderLen, Len(fc))) IN
    IF ~SliceOk(header, 0, MagicLen) THEN Panic
    ELSE IF Slice(header, 0, MagicLen) = ZipMagic THEN Ok("Excel")
    ELSE IF ~SliceOk(header, 0, HeaderLen - 1) THEN Panic
    ELSE IF Slice(header, 0, HeaderLen - 1) = SqliteMagic THEN Ok("Geopackage")
    ELSE IF Slice(header, 0, MagicLen) = ShpMagic THEN Ok("Shapefile")
    ELSE IF Slice(header, 0, MagicLen) = ParquetMagic THEN Ok("Parquet")
    ELSE IF StartsWith(header, Brace) THEN json_branch(fc)
    ELSE csv_branch(fc)

\* variant: the text heuristics are tried before the binary signatures
determine_file_type_text_first(fc) ==
    LET header == Slice(fc, 0, Min(HeaderLen, Len(fc))) IN
    IF StartsWith(header, Brace) THEN json_branch(fc)
    ELSE IF csv_branch(fc) = Ok("Csv") THEN Ok("Csv")
    ELSE IF ~SliceOk(header, 0, MagicLen) THEN Panic
    ELSE IF Slice(header, 0, MagicLen) = ZipMagic THEN Ok("Excel")
    ELSE IF ~SliceOk(header, 0, HeaderLen) THEN Panic
    ELSE IF Slice(header, 0, HeaderLen) = SqliteMagic THEN Ok("Geopackage")
    ELSE IF Slice(header, 0, MagicLen) = ShpMagic THEN Ok("Shapefile")
    ELSE IF Slice(header, 0, MagicLen) = ParquetMagic THEN Ok("Parquet")
    ELSE UnknownFormat

determine_file_type(fc) ==
    IF ~SliceOk(fc, 0, Min(HeaderLen, Len(fc))) THEN Panic ELSE
    LET header == Slice(fc, 0, Min(HeaderLen, Len(fc))) IN
    IF ~SliceOk(header, 0, MagicLen) THEN Panic
    ELSE IF Slice(header, 0, MagicLen) = ZipMagic THEN Ok("Excel")
    ELSE IF ~SliceOk(header, 0, HeaderLen) THEN Panic
    ELSE IF Slice(header, 0, HeaderLen) = SqliteMagic THEN Ok("Geopackage")
    ELSE IF ~SliceOk(header, 0, MagicLen) THEN Panic
    ELSE IF Slice(header, 0, MagicLen) = ShpMagic THEN Ok("Shapefile")
    ELSE IF ~SliceOk(header, 0, MagicLen) THEN Panic
    ELSE IF Slice(header, 0, MagicLen) = ParquetMagic THEN Ok("Parquet")
    ELSE IF StartsWith(header, Brace) THEN json_branch(fc)
    ELSE csv_branch(fc)

----------------------------------------------------------------------------
(* Buffers the classifier is applied to: a head (a signature, a near miss   *)
(* of one, or nothing), two middle fragments and a free tail.               *)

MaxFree == 2

TailBytes == {44, 10, 120, 255}        \* ',', '\n', 'x', a byte no UTF-8 text holds

Heads ==
    { <<>>,
      <<80, 75, 3, 4>>,                                     \* PK\x03\x04
      <<80, 75, 3>>,                                        \* PK\x03
      <<83, 81, 76, 105, 116, 101, 32, 102, 111, 114, 109, 97, 116, 32, 51, 0>>,
      <<83, 81, 76, 105, 116, 101, 32, 102, 111, 114, 109, 97, 116, 32, 51>>,
      <<0, 0, 39, 10>>,                                     \* \x00\x00\x27\x0A
      <<80, 65, 82, 49>>,                                   \* PAR1
      <<123>> }                                             \* {

Mids ==
    { <<>>,
      <<34, 116, 121, 112, 101, 34, 58>>,                   \* "type":
      <<34, 70, 101, 97, 116, 117, 114, 101, 34>>,          \* "Feature"
      <<34, 70, 101, 97, 116, 117, 114, 101, 67, 111, 108, 108, 101, 99, 116,
        105, 111, 110, 34>>,                                \* "FeatureCollection"
      <<34, 102, 111, 111, 34, 58, 49, 125>>,               \* "foo":1}
      <<97, 44, 98, 44, 99, 10>>,                           \* a,b,c\n
      <<49, 44, 50, 44, 51, 10>>,                           \* 1,2,3\n
      <<49, 44, 50, 10>>,                                   \* 1,2\n
      <<97, 98, 99, 10>>,                                   \* abc\n
      <<110, 97, 109, 101, 44, 108, 97, 116, 44, 108, 111, 110, 13, 10>>,
                                                            \* name,lat,lon\r\n
      <<110, 97, 109, 101, 44, 108, 97, 116, 44, 108, 111, 110>>,
                                                            \* name,lat,lon
      <<195, 169>> }                                        \* e-acute, UTF-8

Tails == UNION { [1..k -> TailBytes] : k \in 0..MaxFree }

Inputs == { h \o m1 \o m2 \o t : h \in Heads, m1 \in Mids, m2 \in Mids, t \in Tails }

----------------------------------------------------------------------------
(* The classifier applied to one buffer *)

Init ==
    /\ file_content \in Inputs
    /\ pc = "call"
    /\ ret = None
    /\ failed = "none"
    /\ launch_ret = None
    /\ sql = <<>>
    /\ stdout = <<>>
    /\ stderr = <<>>

Call ==
    /\ pc = "call"
    /\ ret' = determine_file_type(file_content)
    /\ pc' = IF ret'.kind = "Panic" THEN "panicked" ELSE "returned"
    /\ UNCHANGED <<file_content, failed, launch_ret, sql, stdout, stderr>>

Next == Call

Spec == Init /\ [][Next]_vars

----------------------------------------------------------------------------
(* launch_process_file: read the file, classify it, load it into DuckDB,    *)
(* export it to PostGIS.  Every call into the file system or the database   *)
(* may fail; which one does is chosen freely.                               *)

\* the files launch_process_file is run on
LaunchFiles ==
    { <<>>,                                                 \* empty file
      <<80, 75, 3, 4>>,                                     \* PK\x03\x04
      <<83, 81, 76, 105, 116, 101, 32, 102, 111, 114, 109, 97, 116, 32, 51, 0,
        120>>,                                              \* SQLite format 3\0x
      <<0, 0, 39, 10, 0, 0, 0, 0, 0, 0, 0, 0, 0, 0, 0, 0, 0, 0, 0, 0>>,
      <<0, 0, 39, 10>>,                                     \* a 4-byte .shp
      <<80, 65, 82, 49, 97, 44, 98, 44, 99, 10, 49, 44, 50, 44, 51, 10>>,
                                                            \* PAR1a,b,c\n1,2,3\n
      <<123, 34, 116, 121, 112, 101, 34, 58, 34, 70, 101, 97, 116, 117, 114,
        101, 34, 125>>,                                     \* {"type":"Feature"}
      <<123, 34, 102, 111, 111, 34, 58, 49, 44, 34, 98, 97, 114, 34, 58, 50,
        125>>,                                              \* {"foo":1,"bar":2}
      <<110, 97, 109, 101, 44, 108, 97, 116, 44, 108, 111, 110, 10,
        120, 44, 49, 44, 50, 10>>,                          \* name,lat,lon\nx,1,2\n
      <<110, 97, 109, 101, 44, 108, 97, 116, 44, 108, 111, 110, 10,
        120, 44, 49, 10>> }                                 \* name,lat,lon\nx,1\n

\* the table-creation statement process_file builds for a file type
create_table_query(file_type) ==
    IF file_type \in {"Geopackage", "Shapefile", "Geojson"}
    THEN "CREATE TABLE data AS SELECT * EXCLUDE (geom), ST_AsText(geom) as geom_wkt FROM ST_Read"
    ELSE IF file_type = "Excel" THEN "CREATE TABLE data AS SELECT * FROM st_read"
    ELSE IF file_type = "Csv" THEN "CREATE TABLE data AS SELECT * FROM read_csv"
    ELSE "CREATE TABLE data AS SELECT * FROM parquet_scan"

\* the calls of process_file and query_and_print_schema, in order
DuckSteps(file_type) ==
    << "Connection::open_in_memory", "INSTALL spatial;", "LOAD spatial;",
       "INSTALL postgres;", "LOAD postgres;", create_table_query(file_type),
       "prepare SELECT * FROM data LIMIT 10", "query_arrow" >>

\* the statements of load_data_postgis, in order
ExportSteps ==
    << "ATTACH gridwalk_db (TYPE POSTGRES)", "DROP TABLE IF EXISTS gridwalk_db.pop_tart;",
       "CREATE TABLE gridwalk_db.pop_tart AS SELECT * FROM data;",
       "CALL postgres_execute" >>

InitLaunch ==
    /\ file_content \in LaunchFiles
    /\ pc = "File::open"
    /\ ret = None
    /\ failed = "none"
    /\ launch_ret = None
    /\ sql = <<>>
    /\ stdout = <<>>
    /\ stderr = <<>>

\* an io::Error of File::open or read_to_end leaves launch_process_file by `?`
IoErr(step) ==
    /\ failed' = step
    /\ launch_ret' = Err("io error")
    /\ pc' = "done"
    /\ UNCHANGED <<file_content, ret, sql, stdout, stderr>>

FileOpen ==
    /\ pc = "File::open"
    /\ \E ok \in BOOLEAN :
         IF ok THEN /\ pc' = "read_to_end"
                    /\ UNCHANGED <<file_content, ret, failed, launch_ret, sql, stdout, stderr>>
               ELSE IoErr("File::open")

ReadToEnd ==
    /\ pc = "read_to_end"
    /\ \E ok \in BOOLEAN :
         IF ok THEN /\ pc' = "determine_file_type"
                    /\ UNCHANGED <<file_content, ret, failed, launch_ret, sql, stdout, stderr>>
               ELSE IoErr("read_to_end")

\* let file_type = determine_file_type(&buffer)?;  println!("Detected file type")
Classify ==
    /\ pc = "determine_file_type"
    /\ ret' = determine_file_type(file_content)
    /\ IF ret'.kind = "Ok"
       THEN /\ stdout' = Append(stdout, "Detected file type")
            /\ pc' = "duck1"
            /\ UNCHANGED <<failed, launch_ret>>
       ELSE IF ret'.kind = "Err"
       THEN /\ failed' = "determine_file_type"
            /\ launch_ret' = ret'
            /\ pc' = "done"
            /\ UNCHANGED stdout
       ELSE /\ pc' = "panicked"
            /\ UNCHANGED <<failed, launch_ret, stdout>>
    /\ UNCHANGED <<file_content, sql, stderr>>

\* a duckdb::Error inside process_file leaves it by `?`; launch_process_file
\* maps it to an io::Error and returns it
ProcessFileErr(step) ==
    /\ failed' = step
    /\ launch_ret' = Err("Error loading into DuckDB")
    /\ pc' = "done"
    /\ UNCHANGED <<file_content, ret, sql, stdout, stderr>>

DuckPc(i) == IF i = 1 THEN "duck1" ELSE IF i = 2 THEN "duck2"
             ELSE IF i = 3 THEN "duck3" ELSE IF i = 4 THEN "duck4"
             ELSE IF i = 5 THEN "duck5" ELSE IF i = 6 THEN "duck6"
             ELSE IF i = 7 THEN "duck7" ELSE IF i = 8 THEN "duck8"
             ELSE "export1"

\* one call of process_file / query_and_print_schema on the connection
DuckStep ==
    \E i \in 1..Len(DuckSteps(ret.val)) :
      /\ pc = DuckPc(i)
      /\ ret.kind = "Ok"
      /\ LET step == DuckSteps(ret.val)[i] IN
         \E ok \in BOOLEAN :
           IF ok
           THEN /\ sql' = Append(sql, step)
                /\ stdout' = IF i = Len(DuckSteps(ret.val))
                             THEN Append(stdout, "Schema")
                             ELSE stdout
                /\ pc' = DuckPc(i + 1)
                /\ UNCHANGED <<file_content, ret, failed, launch_ret, stderr>>
           ELSE ProcessFileErr(step)

\* process_file returns Ok(()); launch_process_file prints and returns Ok(())
LaunchOk ==
    /\ stdout' = Append(stdout, "Successfully loaded into DuckDB")
    /\ launch_ret' = Ok("()")
    /\ pc' = "done"

\* variant: the export's error is propagated like the errors before it
ExportErr_propagated(step) == ProcessFileErr(step)

\* match load_data_postgis(..) { Err(e) => eprintln!(..) }  then Ok(())
ExportErr(step) ==
    /\ failed' = step
    /\ stderr' = Append(stderr, "Error loading data into PostgreSQL")
    /\ LaunchOk
    /\ UNCHANGED <<file_content, ret, sql>>

ExportPc(i) == IF i = 1 THEN "export1" ELSE IF i = 2 THEN "export2"
               ELSE IF i = 3 THEN "export3" ELSE IF i = 4 THEN "export4"
               ELSE "export_done"

\* one statement of load_data_postgis
ExportStep ==
    \E i \in 1..Len(ExportSteps) :
      /\ pc = ExportPc(i)
      /\ \E ok \in BOOLEAN :
           IF ok
           THEN /\ sql' = Append(sql, ExportSteps[i])
                /\ pc' = ExportPc(i + 1)
                /\ UNCHANGED <<file_content, ret, failed, launch_ret, stdout, stderr>>
           ELSE ExportErr(ExportSteps[i])

\* load_data_postgis returns Ok(()): both successes are printed
ExportOk ==
    /\ pc = "export_done"
    /\ stdout' = stdout \o << "Table pop_tart created and data inserted successfully",
                              "Data successfully loaded into PostgreSQL",
                              "Successfully loaded into DuckDB" >>
    /\ launch_ret' = Ok("()")
    /\ pc' = "done"
    /\ UNCHANGED <<file_content, ret, failed, sql, stderr>>

NextLaunch == FileOpen \/ ReadToEnd \/ Classify \/ DuckStep \/ ExportStep \/ ExportOk

SpecLaunch == InitLaunch /\ [][NextLaunch]_vars

----------------------------------------------------------------------------
(* Properties *)

Returned == ret.kind # "None"

HasPrefix(p) == StartsWith(file_content, p)

ZipSig     == <<80, 75, 3, 4>>
SqliteSig  == <<83, 81, 76, 105, 116, 101, 32, 102, 111, 114, 109, 97, 116, 32, 51, 0>>
ShpSig     == <<0, 0, 39, 10>>
ParquetSig == <<80, 65, 82, 49>>

HasBinarySig ==
    HasPrefix(ZipSig) \/ HasPrefix(SqliteSig) \/ HasPrefix(ShpSig) \/ HasPrefix(ParquetSig)

\* the text conditions of the spec, stated on the buffer
GeojsonMarkers ==
    /\ ValidUtf8(file_content)
    /\ Contains(file_content, <<34, 116, 121, 112, 101, 34, 58>>)
    /\ \/ Contains(file_content, <<34, 70, 101, 97, 116, 117, 114, 101, 67, 111,
                                   108, 108, 101, 99, 116, 105, 111, 110, 34>>)
       \/ Contains(file_content, <<34, 70, 101, 97, 116, 117, 114, 101, 34>>)

CsvShaped ==
    /\ ValidUtf8(file_content)
    /\ \A i \in 1..Len(file_content) : file_content[i] < 128
    /\ Len(lines(file_content)) >= 2
    /\ split_count(lines(file_content)[1]) > 1
    /\ split_count(lines(file_content)[2]) = split_count(lines(file_content)[1])

\* C1: for every buffer, of every length and content, determine_file_type
\* returns Ok or Err and never faults on a slice past the buffer's length.
C1_NeverFaults == Returned => ret.kind \in {"Ok", "Err"}

\* C2: on the empty buffer determine_file_type returns the UnknownFormat
\* error ("Unknown file type"), as a value and not as an indexing fault.
C2_EmptyIsUnknownFormat ==
    (Returned /\ file_content = <<>>) => ret = UnknownFormat

\* C3: a buffer of 4 or more bytes whose first 4 bytes are 00 00 27 0A is
\* classified Ok(Shapefile), whatever its length and remaining content.
C3_ShapefilePrefix ==
    (Returned /\ HasPrefix(ShpSig)) => ret = Ok("Shapefile")

\* C4: a buffer of 4 or more bytes that starts with PAR1 is classified
\* Ok(Parquet), whatever its length and remaining content.
C4_ParquetPrefix ==
    (Returned /\ HasPrefix(ParquetSig)) => ret = Ok("Parquet")

\* C5: a buffer whose first 4 bytes are PK 03 04 is classified Ok(Excel),
\* whatever its length (4 or more) and remaining bytes.
C5_ZipPrefixIsExcel ==
    (Returned /\ HasPrefix(ZipSig)) => ret = Ok("Excel")

\* a ZIP-prefixed buffer shorter than the 16-byte window, followed by other
\* bytes, has been classified
C5_Witness ==
    /\ Returned /\ HasPrefix(ZipSig)
    /\ Len(file_content) > 4 /\ Len(file_content) < 16
    /\ ret = Ok("Excel")

\* C6: a buffer whose first 16 bytes are "SQLite format 3" and a NUL is
\* classified Ok(Geopackage), whatever bytes follow.
C6_SqliteHeaderIsGeopackage ==
    (Returned /\ HasPrefix(SqliteSig)) => ret = Ok("Geopackage")

\* a SQLite-headed buffer followed by bytes that are not UTF-8 has been
\* classified
C6_Witness ==
    /\ Returned /\ HasPrefix(SqliteSig)
    /\ Len(file_content) > 16 /\ ~ValidUtf8(file_content)
    /\ ret = Ok("Geopackage")

\* C7: a buffer of 1 or more bytes whose first byte is '{' is classified
\* Ok(Geojson) exactly when it is valid UTF-8 and contains "type": together
\* with "FeatureCollection" or "Feature"; in every other case the result is
\* the InvalidGeojson error, never UnknownFormat and never a fault.
C7_BraceBranch ==
    (Returned /\ HasPrefix(<<123>>)) =>
        ret = IF GeojsonMarkers THEN Ok("Geojson") ELSE InvalidGeojson

\* C8: a buffer that has none of the four binary signatures and does not
\* begin with '{' is classified Ok(Csv) exactly when it is valid UTF-8, all
\* ASCII, has at least two lines, its first line has more than one
\* comma-separated field and its second line has as many; in every other
\* case the result is the UnknownFormat error.
C8_CsvFallback ==
    (Returned /\ ~HasBinarySig /\ ~HasPrefix(<<123>>)) =>
        ret = IF CsvShaped THEN Ok("Csv") ELSE UnknownFormat

\* C9: binary signatures take priority over the text heuristics: a buffer
\* whose prefix is one of the four binary signatures is never classified
\* Csv or Geojson, even when it is ASCII text of CSV shape.
C9_BinaryBeforeText ==
    (Returned /\ HasBinarySig) => ret \notin {Ok("Csv"), Ok("Geojson")}

\* a buffer that starts with PAR1 and is CSV-shaped ASCII text has been
\* classified Parquet
C9_Witness ==
    /\ Returned /\ HasPrefix(ParquetSig) /\ CsvShaped
    /\ ret = Ok("Parquet")

\* C10: the result of launch_process_file does not depend on the PostGIS
\* export: a run in which the read, the classification and every DuckDB
\* step succeeded returns Ok whether or not a statement of load_data_postgis
\* failed, the export's failure being printed only; a run in which an
\* earlier step failed returns an error.
ExportStepSet == {ExportSteps[i] : i \in 1..Len(ExportSteps)}

C10_ExportOutcomeIgnored ==
    pc = "done" =>
        /\ (failed = "none" \/ failed \in ExportStepSet) <=> launch_ret = Ok("()")
        /\ (failed # "none" /\ failed \notin ExportStepSet) <=> launch_ret.kind = "Err"
        /\ failed \in ExportStepSet =>
             stderr = <<"Error loading data into PostgreSQL">>
        /\ failed \notin ExportStepSet => stderr = <<>>

\* a run whose export failed at its CREATE TABLE AS has returned
C10_Witness ==
    /\ pc = "done"
    /\ failed = ExportSteps[3]
    /\ launch_ret = Ok("()")

====
